---------------------------- MODULE Spec2Model ----------------------------
(***************************************************************************)
(* The throttled summary cache of martechlander-dev.                       *)
(*                                                                         *)
(* Two deployments are modelled.  In the "file" deployment the Claude      *)
(* endpoint of server.js (POST /api/summarize-news) and the headless       *)
(* automation/daily-update.js share summary_cache.txt; daily-update.js     *)
(* also writes feed.xml.  In the "redis" deployment the Gemini endpoint of *)
(* server.js keeps the timestamp and the summary under two Redis keys.     *)
(*                                                                         *)
(* Every await of the handlers is a step of its own: the handlers of       *)
(* several requests interleave at their awaits, and the daily-update       *)
(* script is another operating-system process.                             *)
(***************************************************************************)
EXTENDS Integers, Sequences, FiniteSets, TLC

(***************************************************************************)
(* Bounds of the model.                                                    *)
(***************************************************************************)
NumProcs == 2
MaxRequests == 3
MaxTicks == 2
MaxFaults == 1
MaxEvents == 4
StartTime == 1000
\* Longest summary handed to writeCache, longest stored content and longest
\* summary handed to updateFeedXML when the functions are checked alone.
MaxSummaryLen == 3
MaxContentLen == 4
MaxFeedLen == 6
\* RSS sources fetchAllFeeds asks.
NumSources == 2

(***************************************************************************)
(* Program constants.                                                      *)
(***************************************************************************)
THROTTLE_MINUTES == 91
THROTTLE_SECONDS == THROTTLE_MINUTES * 60
THROTTLE_MILLISECONDS == THROTTLE_MINUTES * 60 * 1000

Procs == 1..NumProcs

(***************************************************************************)
(* Text.  A string is a sequence of one-character strings.                 *)
(***************************************************************************)
DigitChars == <<"0", "1", "2", "3", "4", "5", "6", "7", "8", "9">>

IsDigit(c) == \E i \in 1..10 : DigitChars[i] = c

DigitValue(c) == (CHOOSE i \in 1..10 : DigitChars[i] = c) - 1

IsSpace(c) == c \in {" ", "\n"}

\* Number.prototype.toString / template-literal rendering of a timestamp.
RECURSIVE toString(_)
toString(n) ==
    IF n < 0 THEN <<"-">> \o toString(0 - n)
    ELSE IF n < 10 THEN <<DigitChars[n + 1]>>
    ELSE toString(n \div 10) \o <<DigitChars[(n % 10) + 1]>>

RECURSIVE DigitsPrefix(_)
DigitsPrefix(s) ==
    IF s = <<>> \/ ~IsDigit(Head(s)) THEN <<>>
    ELSE <<Head(s)>> \o DigitsPrefix(Tail(s))

RECURSIVE DigitsValue(_, _)
DigitsValue(s, acc) ==
    IF s = <<>> THEN acc ELSE DigitsValue(Tail(s), acc * 10 + DigitValue(Head(s)))

RECURSIVE trimStart(_)
trimStart(s) ==
    IF s # <<>> /\ IsSpace(Head(s)) THEN trimStart(Tail(s)) ELSE s

RECURSIVE trimEnd(_)
trimEnd(s) ==
    IF s # <<>> /\ IsSpace(s[Len(s)]) THEN trimEnd(SubSeq(s, 1, Len(s) - 1)) ELSE s

\* String.prototype.trim
trim(s) == trimEnd(trimStart(s))

\* parseInt(s, 10): leading white space, an optional sign, then the longest
\* run of digits; NaN when there is no digit.
parseInt(s) ==
    LET t == trimStart(s)
        neg == t # <<>> /\ Head(t) = "-"
        u == IF t # <<>> /\ Head(t) \in {"-", "+"} THEN Tail(t) ELSE t
        d == DigitsPrefix(u)
    IN  IF d = <<>> THEN [nan |-> TRUE, val |-> 0]
        ELSE [nan |-> FALSE,
              val |-> IF neg THEN 0 - DigitsValue(d, 0) ELSE DigitsValue(d, 0)]

\* String.prototype.split('\n')
RECURSIVE split(_)
split(s) ==
    IF \A i \in 1..Len(s) : s[i] # "\n" THEN <<s>>
    ELSE LET k == CHOOSE i \in 1..Len(s) :
                     s[i] = "\n" /\ \A j \in 1..(i - 1) : s[j] # "\n"
         IN  <<SubSeq(s, 1, k - 1)>> \o split(SubSeq(s, k + 1, Len(s)))

\* Array.prototype.join('\n')
RECURSIVE join(_)
join(lines) ==
    IF lines = <<>> THEN <<>>
    ELSE IF Len(lines) = 1 THEN lines[1]
    ELSE lines[1] \o <<"\n">> \o join(Tail(lines))

(***************************************************************************)
(* Cache entries as the handlers see them (readCache's result).            *)
(***************************************************************************)
null == [present |-> FALSE, timestamp |-> 0, summary |-> <<>>]

Entry(timestamp, summary) ==
    [present |-> TRUE, timestamp |-> timestamp, summary |-> summary]

\* The file summary_cache.txt.
NoFile == [exists |-> FALSE, content |-> <<>>]

\* readCache of the file variants, applied to the file as fs.readFile finds
\* it; ioOk = FALSE is a read error other than ENOENT.
readCache(f, ioOk) ==
    IF ~ioOk \/ ~f.exists THEN null
    ELSE CHOOSE cachedData \in
             { IF Len(lines) < 2 THEN null
               ELSE LET timestamp == parseInt(lines[1])
                        summary == join(Tail(lines))
                    IN  IF timestamp.nan THEN null
                        ELSE Entry(timestamp.val, summary)
               : lines \in {split(trim(f.content))} } : TRUE

\* writeCache of the file variants: the content handed to fs.writeFile.
writeCache(timestamp, summary) == toString(timestamp) \o <<"\n">> \o summary

\* fs.writeFile opens the file with flag 'w', which truncates it ...
OpenTruncate(f) == [exists |-> TRUE, content |-> <<>>]

\* ... and then writes the data from position 0 of its own descriptor: what
\* another writer has put beyond the data's length stays in the file.
WriteData(f, data) ==
    [exists |-> TRUE,
     content |-> data \o SubSeq(f.content, Len(data) + 1, Len(f.content))]


(***************************************************************************)
(* Throttle policy and banners.                                            *)
(***************************************************************************)
\* A throttle test that also counts an entry exactly one window old as fresh.
isFreshInclusive(currentTime, timestamp) ==
    currentTime - timestamp <= THROTTLE_MILLISECONDS

\* The throttle test of every handler: timeElapsed < THROTTLE_MILLISECONDS.
isFresh(currentTime, timestamp) ==
    currentTime - timestamp < THROTTLE_MILLISECONDS

\* Math.ceil(x / k) for k > 0.
ceilDiv(x, k) == 0 - ((0 - x) \div k)

\* formatTimestamp renders to the second ('N/A' for 0, rendered as -1 here).
formatTimestamp(msTimestamp) ==
    IF msTimestamp = 0 THEN 0 - 1 ELSE msTimestamp \div 1000

NoHeader == [banner |-> "null", at |-> 0, next |-> 0, minutes |-> 0]

\* A throttle banner that shows the time of the request as the time of
\* generation.
ThrottleHeaderNow(currentTime, timestamp) ==
    [banner |-> "throttle",
     at |-> formatTimestamp(currentTime),
     next |-> formatTimestamp(currentTime + THROTTLE_MILLISECONDS),
     minutes |-> ceilDiv(THROTTLE_MILLISECONDS - (currentTime - timestamp),
                         60 * 1000)]

\* A throttle banner whose remaining time is clamped to the window.
ThrottleHeaderClamped(currentTime, timestamp) ==
    [banner |-> "throttle",
     at |-> formatTimestamp(timestamp),
     next |-> formatTimestamp(timestamp + THROTTLE_MILLISECONDS),
     minutes |-> IF currentTime < timestamp THEN THROTTLE_MINUTES
                 ELSE ceilDiv(THROTTLE_MILLISECONDS - (currentTime - timestamp),
                              60 * 1000)]

\* The "Summary Throttle Active" banner of the cached path.
ThrottleHeader(currentTime, timestamp) ==
    [banner |-> "throttle",
     at |-> formatTimestamp(timestamp),
     next |-> formatTimestamp(timestamp + THROTTLE_MILLISECONDS),
     minutes |-> ceilDiv(THROTTLE_MILLISECONDS - (currentTime - timestamp),
                         60 * 1000)]

\* A fresh banner that gives the time of generation as the next eligible
\* time.
FreshHeaderNoWindow(newTimestamp) ==
    [banner |-> "fresh",
     at |-> formatTimestamp(newTimestamp),
     next |-> formatTimestamp(newTimestamp),
     minutes |-> 0]

\* The "Summary Freshly Generated" banner of the generation path.
FreshHeader(newTimestamp) ==
    [banner |-> "fresh",
     at |-> formatTimestamp(newTimestamp),
     next |-> formatTimestamp(newTimestamp + THROTTLE_MILLISECONDS),
     minutes |-> 0]

\* A banner as the text of its template literal (empty for null).
HeaderText(h) ==
    IF h.banner = "null" THEN <<>>
    ELSE <<"#", IF h.banner = "throttle" THEN "T" ELSE "F">>
         \o toString(h.at) \o <<"\n">>

(***************************************************************************)
(* The summarizer provider.                                                *)
(***************************************************************************)
\* Texts the provider generates.
Texts == { <<"a">>, <<"b", "c">> }

\* The literal the Claude handlers substitute when no text can be extracted.
ExtractError == <<"E", "r", "r">>

\* What a provider call ends with: a 200 carrying a text, a 200 from which no
\* text can be extracted, or a failure with a provider status.
ProviderResponses ==
    { [ok |-> TRUE, status |-> 200, hasText |-> TRUE, text |-> t] : t \in Texts }
    \cup { [ok |-> TRUE, status |-> 200, hasText |-> FALSE, text |-> <<>>] }
    \cup { [ok |-> FALSE, status |-> 503, hasText |-> FALSE, text |-> <<>>] }

\* How a template literal or a string concatenation renders undefined.
UndefinedText == <<"u", "n", "d">>

\* response.text of the Gemini SDK as the file-cache handler uses it: in
\* `${timestamp}\n${summary}` and in newCacheHeader + newSummary.
geminiText(r) == IF r.hasText THEN r.text ELSE UndefinedText

\* data.content?.[0]?.text || "Error: Could not extract summary text ..."
extractClaudeText(r) ==
    IF r.hasText /\ r.text # <<>> THEN r.text ELSE ExtractError

(***************************************************************************)
(* State.                                                                  *)
(***************************************************************************)
VARIABLES
    deployment,   \* which server.js variant is deployed: "file" (Claude, file
                  \* cache), "concat" (Gemini, file cache, banner prepended
                  \* to the summary) or "redis" (Gemini, Redis cache)
    apiKey,       \* whether CLAUDE_API_KEY is configured
    now,          \* Date.now()
    ticks,        \* clock advances so far
    file,         \* summary_cache.txt
    feed,         \* feed.xml
    redis,        \* the keys latest_strategic_timestamp / latest_strategic_summary
    proc,         \* the handler (or script run) each process is executing
    started,      \* requests and runs started so far
    lastCall,     \* history: the time of the latest summarizer invocation (0: none)
    cohortCalls,  \* history: invocations by the requests and runs that started on an empty cache
    cohortGen,    \* history: the generatedAt values those requests and runs returned
    written,      \* history: the (timestamp, summary) pairs handed to writeCache
    lastWrite,    \* history: the pair of the writeCache call that completed last
    faults,       \* I/O errors of the cache and feed so far
    last          \* the request or run that this step completed, with its answer

vars == <<deployment, apiKey, now, ticks, file, feed, redis, proc, started,
          lastCall, cohortCalls, cohortGen, written, lastWrite, faults, last>>

IdleProc ==
    [pc |-> "idle", kind |-> "none",
     htmlContent |-> FALSE, forceRegenerate |-> FALSE,
     currentTime |-> 0, cachedData |-> null,
     newTimestamp |-> 0, newSummary |-> <<>>,
     status |-> 0, exitCode |-> 0 - 1,
     header |-> NoHeader, summary |-> <<>>, providerStatus |-> 0,
     path |-> "none", invoked |-> FALSE, wrote |-> FALSE,
     unusable |-> FALSE, cohort |-> FALSE, genSeen |-> 0, afterGen |-> FALSE,
     generatedAt |-> 0, errorStatus |-> 0,
     fetched |-> FALSE, sourcesOk |-> 0, newsItems |-> 0]

NoFeed ==
    [exists |-> FALSE, channels |-> 0, items |-> 0, timestamp |-> 0,
     pubDate |-> 0, lastBuildDate |-> 0, guid |-> 0,
     lastUpdated |-> 0, throttleMinutes |-> 0, body |-> <<>>]

NoRedis ==
    [ts |-> [present |-> FALSE, value |-> <<>>],
     sum |-> [present |-> FALSE, value |-> <<>>, expireAt |-> 0]]

Init ==
    /\ deployment \in {"file", "concat", "redis"}
    /\ apiKey \in (IF deployment = "file" THEN BOOLEAN ELSE {TRUE})
    /\ now = StartTime
    /\ ticks = 0
    /\ file = NoFile
    /\ feed = NoFeed
    /\ redis = NoRedis
    /\ proc = [p \in Procs |-> IdleProc]
    /\ started = 0
    /\ lastCall = 0
    /\ cohortCalls = 0
    /\ cohortGen = {}
    /\ written = {}
    /\ lastWrite = null
    /\ faults = 0
    /\ last = IdleProc

(***************************************************************************)
(* Redis cache (server.js, Redis variant).                                 *)
(***************************************************************************)
\* readCache over MGET of the two keys at time t; a key past its expiry is
\* gone, and a null or empty value is falsy.
readCacheRedis(rd, t, ioOk) ==
    IF ~ioOk THEN null
    ELSE LET timestampStr == IF rd.ts.present THEN rd.ts.value ELSE <<>>
             summary == IF rd.sum.present /\ t < rd.sum.expireAt
                        THEN rd.sum.value ELSE <<>>
         IN  IF timestampStr = <<>> \/ summary = <<>> THEN null
             ELSE LET timestamp == parseInt(timestampStr) IN
                  IF timestamp.nan THEN null
                  ELSE Entry(timestamp.val, summary)

\* redisClient.set(CACHE_KEY_TIMESTAMP, timestamp.toString())
setTimestampKey(rd, timestamp) ==
    [rd EXCEPT !.ts = [present |-> TRUE, value |-> toString(timestamp)]]

\* A summary key whose expiry takes the minutes of the window as seconds.
setSummaryKeyMinutesAsSeconds(rd, summary, t) ==
    [rd EXCEPT !.sum = [present |-> TRUE, value |-> summary,
                        expireAt |-> t + THROTTLE_MINUTES * 1000]]

\* redisClient.set(CACHE_KEY_SUMMARY, summary, 'EX', THROTTLE_SECONDS) at time t
setSummaryKey(rd, summary, t) ==
    [rd EXCEPT !.sum = [present |-> TRUE, value |-> summary,
                        expireAt |-> t + THROTTLE_SECONDS * 1000]]

(***************************************************************************)
(* The decisions of POST /api/summarize-news.                              *)
(***************************************************************************)
\* A throttle branch that honours req.body.forceRegenerate.
throttledUnlessForced(r, cachedData) ==
    /\ ~r.forceRegenerate
    /\ cachedData.present
    /\ r.currentTime - cachedData.timestamp < THROTTLE_MILLISECONDS

\* The throttle branch: the handler serves cachedData when it holds an entry
\* younger than the window.  r is the request, cachedData what it read.
throttled(r, cachedData) ==
    cachedData.present /\ isFresh(r.currentTime, cachedData.timestamp)

\* summaryToReturn after the throttle branch (<<>> stands for null).
summaryToReturn(r, cachedData) ==
    IF throttled(r, cachedData) THEN cachedData.summary ELSE <<>>

\* The checks before the Claude call without the test of the API key.
claudePrecheckContentOnly(r, key) ==
    IF ~r.htmlContent THEN 400 ELSE 0

\* The checks before the Claude call with the API key tested first.
claudePrecheckKeyFirst(r, key) ==
    IF ~key THEN 500 ELSE IF ~r.htmlContent THEN 400 ELSE 0

\* The checks before the Claude call: the status to answer with, 0 to go on.
claudePrecheck(r, key) ==
    IF ~r.htmlContent THEN 400 ELSE IF ~key THEN 500 ELSE 0

\* The check before the Gemini call.
geminiPrecheck(r, key) ==
    IF ~r.htmlContent THEN 400 ELSE 0

\* A response test that lets every provider response through.
responseAlwaysOk(r) == TRUE

\* if (!response.ok) throw ...
responseOk(r) == r.ok

(***************************************************************************)
(* Steps.                                                                  *)
(***************************************************************************)
config == <<deployment, apiKey>>

calls == <<lastCall, cohortCalls>>

InFlight == {p \in Procs : proc[p].pc # "idle"}

\* Nothing has been generated, written or answered yet.
EmptyStart == written = {} /\ started = Cardinality(InFlight)

\* generatedAt of the generation whose cache write completed last, when it
\* stored a summary text (0: none).
LastGenerated ==
    IF lastWrite.present /\ lastWrite.summary # <<>>
    THEN lastWrite.timestamp ELSE 0

\* summaryToReturn as the handler answers it: the Gemini file-cache handler
\* returns cacheHeader + summary, the others the summary alone.
summaryField(header, summary) ==
    IF deployment = "concat" THEN HeaderText(header) \o summary ELSE summary

\* Process p invokes the summarizer.
Invoke(p) ==
    /\ lastCall' = now
    /\ cohortCalls' = IF proc[p].cohort THEN cohortCalls + 1 ELSE cohortCalls

\* Process p goes on as r.
Goto(p, r) ==
    /\ proc' = [proc EXCEPT ![p] = r]
    /\ last' = IdleProc
    /\ UNCHANGED cohortGen

\* Process p completes as r: the answer is sent (the script exits).
Finish(p, r) ==
    /\ proc' = [proc EXCEPT ![p] = IdleProc]
    /\ last' = [r EXCEPT !.pc = "done"]
    /\ cohortGen' = IF r.cohort /\ (r.status = 200 \/ r.exitCode = 0)
                    THEN cohortGen \cup {r.generatedAt} ELSE cohortGen

\* Arrivals, clock advances and I/O errors draw on one budget.
Budget == started + ticks + faults < MaxEvents

\* The outcomes of an I/O operation on the cache or the feed.
IoOutcomes == IF faults < MaxFaults /\ Budget THEN BOOLEAN ELSE {TRUE}

Io(ioOk) == faults' = IF ioOk THEN faults ELSE faults + 1

\* Requests and runs are taken by the first free process.
FirstFree(p) == proc[p].pc = "idle" /\ \A q \in 1..(p - 1) : proc[q].pc # "idle"

\* A request arrives: req.body and Date.now() are read, readCache is awaited.
PostSummarizeNews(p) ==
    /\ FirstFree(p)
    /\ started < MaxRequests /\ Budget
    /\ \E html \in BOOLEAN, force \in BOOLEAN :
          Goto(p, [IdleProc EXCEPT
                     !.pc = "readCache",
                     !.kind = IF deployment = "file" THEN "claude" ELSE "gemini",
                     !.htmlContent = html,
                     !.forceRegenerate = force,
                     !.currentTime = now,
                     !.cohort = EmptyStart,
                     !.genSeen = LastGenerated])
    /\ started' = started + 1
    /\ UNCHANGED <<config, now, ticks, file, feed, redis,
                   calls, written, lastWrite, faults>>

\* The handler from the cache read to its next await: the throttle branch,
\* the precondition checks, and the provider call or the response.
Decide(p, cachedData, precheck) ==
    LET r == proc[p]
        cached == summaryToReturn(r, cachedData)
        seen == [r EXCEPT !.cachedData = cachedData,
                          !.afterGen = r.genSeen > 0
                                       /\ now - r.genSeen < THROTTLE_MILLISECONDS]
    IN  IF cached # <<>>
        THEN /\ Finish(p, [seen EXCEPT
                       !.path = "cached", !.status = 200,
                       !.header = ThrottleHeader(r.currentTime, cachedData.timestamp),
                       !.summary = summaryField(
                           ThrottleHeader(r.currentTime, cachedData.timestamp),
                           cached),
                       !.generatedAt = cachedData.timestamp])
             /\ UNCHANGED calls
        ELSE IF precheck # 0
        THEN /\ Finish(p, [seen EXCEPT !.path = "generate", !.status = precheck])
             /\ UNCHANGED calls
        ELSE /\ Goto(p, [seen EXCEPT !.pc = "fetch", !.path = "generate",
                                     !.invoked = TRUE,
                                     \* req.body is not read from here on
                                     !.forceRegenerate = FALSE])
             /\ Invoke(p)

\* server.js (Claude): readCache returns.
ClaudeReadCache(p) ==
    /\ proc[p].pc = "readCache" /\ proc[p].kind = "claude"
    /\ \E ioOk \in IoOutcomes :
          /\ \E cachedData \in {readCache(file, ioOk)} :
                Decide(p, cachedData, claudePrecheck(proc[p], apiKey))
          /\ Io(ioOk)
    /\ UNCHANGED <<config, now, ticks, file, feed, redis, started,
                   written, lastWrite>>

\* server.js (Gemini): readCache returns, from Redis or from the file.
GeminiReadCache(p) ==
    /\ proc[p].pc = "readCache" /\ proc[p].kind = "gemini"
    /\ \E ioOk \in IoOutcomes :
          /\ \E cachedData \in {IF deployment = "redis"
                                  THEN readCacheRedis(redis, now, ioOk)
                                  ELSE readCache(file, ioOk)} :
                Decide(p, cachedData, geminiPrecheck(proc[p], apiKey))
          /\ Io(ioOk)
    /\ UNCHANGED <<config, now, ticks, file, feed, redis, started,
                   written, lastWrite>>

\* The 200 answer of the generation path, built after writeCache returned.
RespondFresh(r) ==
    [r EXCEPT !.status = 200,
              !.header = FreshHeader(r.newTimestamp),
              !.summary = summaryField(FreshHeader(r.newTimestamp), r.newSummary),
              !.generatedAt = r.newTimestamp]

\* A call that stores the banner in front of the summary.
writeCacheArgsWithHeader(r) ==
    Entry(r.newTimestamp, HeaderText(FreshHeader(r.newTimestamp)) \o r.newSummary)

\* The arguments of the call: await writeCache(newTimestamp, newSummary).
writeCacheArgs(r) == Entry(r.newTimestamp, r.newSummary)

\* A handler that sends nothing once writeCache has returned.
AfterWriteCacheSilent(p) == Goto(p, [proc[p] EXCEPT !.pc = "silent"])

\* What follows writeCache: the endpoint answers, the script updates the feed.
AfterWriteCache(p) ==
    IF proc[p].kind = "daily"
    THEN Goto(p, [proc[p] EXCEPT !.pc = "updateFeed"])
    ELSE Finish(p, RespondFresh(proc[p]))

\* A writeCache whose I/O error escaped to its caller.
writeCacheRethrows(ioOk) == ioOk

\* writeCache's try/catch: the promise resolves whether the I/O succeeded or
\* not (the error is logged).
writeCacheResolves(ioOk) == TRUE

\* The caller's catch block: 500, or process.exit(1) in the script.
Thrown(r) ==
    IF r.kind = "daily" THEN [r EXCEPT !.exitCode = 1]
    ELSE [r EXCEPT !.status = 500]

\* writeCache returns to its caller after an I/O that went ioOk.
WriteCacheReturns(p, ioOk) ==
    IF writeCacheResolves(ioOk) THEN AfterWriteCache(p)
    ELSE Finish(p, Thrown(proc[p]))

\* A catch block that calls the provider again.
catchErrorRetrying(p, r) ==
    Goto(p, [proc[p] EXCEPT !.providerStatus = r.providerStatus])

\* The provider call threw: the catch block answers as r (the script exits).
\* No loop surrounds the call.
catchError(p, r) == Finish(p, r)

\* server.js (Claude): the fetch of the Anthropic API returns.  A status
\* that is not ok throws into the catch (500); otherwise the text is
\* extracted, Date.now() is read and writeCache is called.
ClaudeFetchReturns(p) ==
    /\ proc[p].pc = "fetch" /\ proc[p].kind = "claude"
    /\ \E resp \in ProviderResponses :
          IF ~responseOk(resp)
          THEN /\ catchError(p, [proc[p] EXCEPT !.status = 500,
                                                !.providerStatus = resp.status,
                                                !.errorStatus = resp.status])
               /\ UNCHANGED written
          ELSE LET newSummary == extractClaudeText(resp) IN
               /\ Goto(p, [proc[p] EXCEPT !.pc = "writeOpen",
                                          !.providerStatus = resp.status,
                                          !.unusable = ~resp.hasText,
                                          !.newSummary = newSummary,
                                          !.newTimestamp = now,
                                          !.wrote = TRUE])
               /\ written' = written \cup {Entry(now, newSummary)}
    /\ UNCHANGED <<config, now, ticks, file, feed, redis, started,
                   calls, lastWrite, faults>>

\* writeCache (file): fs.writeFile opens summary_cache.txt, truncating it.
\* An error is logged and swallowed: writeCache returns.
FileWriteOpen(p) ==
    /\ proc[p].pc = "writeOpen"
    /\ \E ioOk \in IoOutcomes :
          /\ IF ioOk
             THEN /\ file' = OpenTruncate(file)
                  /\ Goto(p, [proc[p] EXCEPT !.pc = "writeData"])
             ELSE /\ file' = file
                  /\ WriteCacheReturns(p, ioOk)
          /\ Io(ioOk)
    /\ UNCHANGED <<config, now, ticks, feed, redis, started,
                   calls, written, lastWrite>>

\* writeCache (file): fs.writeFile writes the content and writeCache returns.
FileWriteData(p) ==
    /\ proc[p].pc = "writeData"
    /\ \E ioOk \in IoOutcomes :
          /\ IF ioOk
             THEN /\ file' = WriteData(file,
                                       writeCache(writeCacheArgs(proc[p]).timestamp,
                                                  writeCacheArgs(proc[p]).summary))
                  /\ lastWrite' = writeCacheArgs(proc[p])
             ELSE UNCHANGED <<file, lastWrite>>
          /\ Io(ioOk)
          /\ WriteCacheReturns(p, ioOk)
    /\ UNCHANGED <<config, now, ticks, feed, redis, started, calls, written>>

\* server.js (Gemini): ai.models.generateContent returns or throws.  The text
\* (undefined when the response carries none) is cached as it is.
GeminiGenerateReturns(p) ==
    /\ proc[p].pc = "fetch" /\ proc[p].kind = "gemini"
    /\ \E resp \in ProviderResponses :
          IF ~resp.ok
          THEN /\ catchError(p, [proc[p] EXCEPT !.status = 500,
                                                !.providerStatus = resp.status])
               /\ UNCHANGED written
          ELSE LET newSummary == IF deployment = "redis" THEN resp.text
                                 ELSE geminiText(resp)
               IN
               /\ Goto(p, [proc[p] EXCEPT
                             !.pc = IF deployment = "redis"
                                    THEN "setTimestamp" ELSE "writeOpen",
                             !.providerStatus = resp.status,
                             !.unusable = ~resp.hasText,
                             !.newSummary = newSummary,
                             !.newTimestamp = now,
                             !.wrote = TRUE])
               /\ written' = written \cup {Entry(now, newSummary)}
    /\ UNCHANGED <<config, now, ticks, file, feed, redis, started,
                   calls, lastWrite, faults>>

\* writeCache (Redis), first SET: the timestamp.  An error skips the second
\* SET, is logged and swallowed.
RedisSetTimestamp(p) ==
    /\ proc[p].pc = "setTimestamp"
    /\ \E ioOk \in IoOutcomes :
          /\ IF ioOk
             THEN /\ redis' = setTimestampKey(redis,
                                             writeCacheArgs(proc[p]).timestamp)
                  /\ Goto(p, [proc[p] EXCEPT !.pc = "setSummary"])
             ELSE /\ redis' = redis
                  /\ WriteCacheReturns(p, ioOk)
          /\ Io(ioOk)
    /\ UNCHANGED <<config, now, ticks, file, feed, started,
                   calls, written, lastWrite>>

\* writeCache (Redis), second SET: the summary, with its time to live.
RedisSetSummary(p) ==
    /\ proc[p].pc = "setSummary"
    /\ \E ioOk \in IoOutcomes :
          /\ IF ioOk
             THEN /\ redis' = setSummaryKey(redis,
                                           writeCacheArgs(proc[p]).summary, now)
                  /\ lastWrite' = writeCacheArgs(proc[p])
             ELSE UNCHANGED <<redis, lastWrite>>
          /\ Io(ioOk)
          /\ WriteCacheReturns(p, ioOk)
    /\ UNCHANGED <<config, now, ticks, file, feed, started, calls, written>>

(***************************************************************************)
(* automation/daily-update.js.                                             *)
(***************************************************************************)
\* A replace without the g flag: only the first ]]> is split.
RECURSIVE escapeCDATAFirst(_)
escapeCDATAFirst(s) ==
    IF Len(s) < 3 THEN s
    ELSE IF SubSeq(s, 1, 3) = <<"]", "]", ">">>
    THEN <<"]", "]", "]", "]", ">", "<", "!", "[", "C", "D", "A", "T", "A", "[", ">">>
         \o SubSeq(s, 4, Len(s))
    ELSE <<Head(s)>> \o escapeCDATAFirst(Tail(s))

\* summary.replace(/]]>/g, ']]]]><![CDATA[>')
RECURSIVE escapeCDATA(_)
escapeCDATA(s) ==
    IF Len(s) < 3 THEN s
    ELSE IF SubSeq(s, 1, 3) = <<"]", "]", ">">>
    THEN <<"]", "]", "]", "]", ">", "<", "!", "[", "C", "D", "A", "T", "A", "[", ">">>
         \o escapeCDATA(SubSeq(s, 4, Len(s)))
    ELSE <<Head(s)>> \o escapeCDATA(Tail(s))

\* new Date(timestamp).toUTCString(): the instant to the second.
toUTCString(timestamp) == timestamp \div 1000

\* new Date(timestamp).toISOString().split('T')[0]: the day of the instant.
isoDate(timestamp) == timestamp \div 86400000

\* A renderer that stamps lastBuildDate with the time of rendering.
updateFeedXMLBuiltNow(timestamp, summary) ==
    [exists |-> TRUE, channels |-> 1, items |-> 1, timestamp |-> timestamp,
     pubDate |-> toUTCString(timestamp),
     lastBuildDate |-> toUTCString(now),
     guid |-> isoDate(timestamp),
     lastUpdated |-> formatTimestamp(timestamp),
     throttleMinutes |-> THROTTLE_MINUTES,
     body |-> escapeCDATA(summary)]

\* A renderer that dates the item by the time of rendering.
updateFeedXMLPublishedNow(timestamp, summary) ==
    [exists |-> TRUE, channels |-> 1, items |-> 1, timestamp |-> timestamp,
     pubDate |-> toUTCString(now),
     lastBuildDate |-> toUTCString(timestamp),
     guid |-> isoDate(now),
     lastUpdated |-> formatTimestamp(timestamp),
     throttleMinutes |-> THROTTLE_MINUTES,
     body |-> escapeCDATA(summary)]

\* The document updateFeedXML writes: one <channel> with one <item>, and its
\* parts that are not literal: pubDate, lastBuildDate, the date in the guid
\* (after "adtech-summary-"), the "Last Updated" line, the throttle minutes
\* and the escaped summary.  timestamp is the argument they derive from.
updateFeedXML(timestamp, summary) ==
    [exists |-> TRUE, channels |-> 1, items |-> 1, timestamp |-> timestamp,
     pubDate |-> toUTCString(timestamp),
     lastBuildDate |-> toUTCString(timestamp),
     guid |-> isoDate(timestamp),
     lastUpdated |-> formatTimestamp(timestamp),
     throttleMinutes |-> THROTTLE_MINUTES,
     body |-> escapeCDATA(summary)]

\* main starts: Date.now() is read and readCache awaited.
MainStart(p) ==
    /\ deployment = "file"
    /\ FirstFree(p)
    /\ started < MaxRequests /\ Budget
    /\ Goto(p, [IdleProc EXCEPT !.pc = "readCache", !.kind = "daily",
                                !.currentTime = now,
                                !.cohort = EmptyStart,
                                !.genSeen = LastGenerated])
    /\ started' = started + 1
    /\ UNCHANGED <<config, now, ticks, file, feed, redis,
                   calls, written, lastWrite, faults>>

\* main: readCache returns.  A fresh entry goes to updateFeedXML; otherwise
\* the feeds are fetched.
MainReadCache(p) ==
    /\ proc[p].pc = "readCache" /\ proc[p].kind = "daily"
    /\ \E ioOk \in IoOutcomes :
          LET cachedData == readCache(file, ioOk)
              seen == [proc[p] EXCEPT
                         !.cachedData = cachedData,
                         !.afterGen = proc[p].genSeen > 0
                             /\ now - proc[p].genSeen < THROTTLE_MILLISECONDS]
          IN  /\ IF throttled(proc[p], cachedData)
                 THEN Goto(p, [seen EXCEPT
                                 !.pc = "updateFeed", !.path = "cached",
                                 !.newTimestamp = cachedData.timestamp,
                                 !.newSummary = cachedData.summary,
                                 !.generatedAt = cachedData.timestamp])
                 ELSE Goto(p, [seen EXCEPT !.pc = "fetchAllFeeds",
                                           !.path = "generate"])
              /\ Io(ioOk)
    /\ UNCHANGED <<config, now, ticks, file, feed, redis, started,
                   calls, written, lastWrite>>

RECURSIVE Sum(_)
Sum(counts) == IF counts = <<>> THEN 0 ELSE Head(counts) + Sum(Tail(counts))

\* fetchRSSFeed: the number of items a source yields; a failed fetch, a
\* status that is not ok and an invalid body all yield [].
fetchRSSFeed(ok) == IF ok THEN 1 ELSE 0

\* An aggregation that one failed source empties.
fetchAllFeedsAllOrNothing(results) ==
    IF \E i \in 1..Len(results) : results[i] = 0 THEN 0 ELSE Sum(results)

\* fetchAllFeeds: (await Promise.all(allPromises)).flat(), by its length.
fetchAllFeeds(results) == Sum(results)

\* main: fetchAllFeeds returns.  No item: process.exit(1).  Otherwise
\* generateClaudeSummary throws without an API key, or calls the Claude API.
MainFetchAllFeeds(p) ==
    /\ proc[p].pc = "fetchAllFeeds"
    /\ \E ok \in [1..NumSources -> BOOLEAN] :
          LET n == fetchAllFeeds([i \in 1..NumSources |-> fetchRSSFeed(ok[i])])
              r == [proc[p] EXCEPT
                      !.fetched = TRUE,
                      !.sourcesOk = Cardinality({i \in 1..NumSources : ok[i]}),
                      !.newsItems = n]
          IN
          IF n = 0 \/ ~apiKey
          THEN /\ Finish(p, [r EXCEPT !.exitCode = 1])
               /\ UNCHANGED calls
          ELSE /\ Goto(p, [r EXCEPT !.pc = "fetch", !.invoked = TRUE])
               /\ Invoke(p)
    /\ UNCHANGED <<config, now, ticks, file, feed, redis, started,
                   written, lastWrite, faults>>

\* generateClaudeSummary: the fetch returns.  A status that is not ok throws
\* up to main's catch (process.exit(1)); otherwise main reads Date.now() and
\* calls writeCache.
MainFetchReturns(p) ==
    /\ proc[p].pc = "fetch" /\ proc[p].kind = "daily"
    /\ \E resp \in ProviderResponses :
          IF ~responseOk(resp)
          THEN /\ catchError(p, [proc[p] EXCEPT !.exitCode = 1,
                                                !.providerStatus = resp.status,
                                                !.errorStatus = resp.status])
               /\ UNCHANGED written
          ELSE LET summary == extractClaudeText(resp) IN
               /\ Goto(p, [proc[p] EXCEPT !.pc = "writeOpen",
                                          \* newsItems is not read again
                                          !.sourcesOk = 0, !.newsItems = 0,
                                          !.providerStatus = resp.status,
                                          !.unusable = ~resp.hasText,
                                          !.newSummary = summary,
                                          !.newTimestamp = now,
                                          !.wrote = TRUE])
               /\ written' = written \cup {Entry(now, summary)}
    /\ UNCHANGED <<config, now, ticks, file, feed, redis, started,
                   calls, lastWrite, faults>>

\* updateFeedXML writes feed.xml (an error is logged and swallowed) and main
\* returns: the script exits with code 0.
MainUpdateFeedXML(p) ==
    /\ proc[p].pc = "updateFeed"
    /\ \E ioOk \in IoOutcomes :
          /\ feed' = IF ioOk
                     THEN updateFeedXML(proc[p].newTimestamp, proc[p].newSummary)
                     ELSE feed
          /\ Io(ioOk)
    /\ Finish(p, [proc[p] EXCEPT !.exitCode = 0,
                                 !.summary = proc[p].newSummary])
    /\ UNCHANGED <<config, now, ticks, file, redis, started,
                   calls, written, lastWrite>>

(***************************************************************************)
(* The clock.                                                              *)
(***************************************************************************)
TickSteps == {1, THROTTLE_MILLISECONDS - 1}

Tick ==
    /\ ticks < MaxTicks /\ Budget
    /\ \E d \in TickSteps :
          /\ d > 1 => InFlight = {}
          /\ now' = now + d
    /\ ticks' = ticks + 1
    /\ UNCHANGED <<config, file, feed, redis, proc, started,
                   calls, cohortGen, written, lastWrite, faults>>
    /\ last' = IdleProc

Next ==
    \/ Tick
    \/ \E p \in Procs :
          \/ PostSummarizeNews(p)
          \/ ClaudeReadCache(p)
          \/ ClaudeFetchReturns(p)
          \/ FileWriteOpen(p)
          \/ FileWriteData(p)
          \/ GeminiReadCache(p)
          \/ GeminiGenerateReturns(p)
          \/ RedisSetTimestamp(p)
          \/ RedisSetSummary(p)
          \/ MainStart(p)
          \/ MainReadCache(p)
          \/ MainFetchAllFeeds(p)
          \/ MainFetchReturns(p)
          \/ MainUpdateFeedXML(p)

Spec == Init /\ [][Next]_vars

(***************************************************************************)
(* The functions on their own.  Process 1 is a caller holding the          *)
(* arguments (newTimestamp, newSummary); nothing runs beside it.           *)
(***************************************************************************)
\* The strings over chars of length at most n.
Strings(chars, n) == UNION {[1..k -> chars] : k \in 0..n}

Quiet ==
    /\ apiKey = TRUE /\ now = StartTime /\ ticks = 0 /\ feed = NoFeed
    /\ started = 0 /\ lastCall = 0 /\ cohortCalls = 0 /\ cohortGen = {}
    /\ written = {} /\ lastWrite = null /\ faults = 0 /\ last = IdleProc

Caller(r) == [p \in Procs |-> IF p = 1 THEN r ELSE IdleProc]

\* Characters of cache contents: a digit, a sign, a letter, white space.
CacheChars == {"1", "-", "a", "\n", " "}

CacheTimestamps == {0, 7, StartTime}

\* Either the cache is empty and the caller holds an entry to write, or the
\* cache holds some stored data and the caller is about to read it.
CacheInit ==
    /\ Quiet
    /\ deployment \in {"file", "redis"}
    /\ \/ /\ file = NoFile /\ redis = NoRedis
          /\ \E t \in CacheTimestamps, text \in Strings(CacheChars, MaxSummaryLen) :
                proc = Caller([IdleProc EXCEPT !.pc = "call", !.kind = "cache",
                                               !.newTimestamp = t,
                                               !.newSummary = text])
       \/ /\ proc = Caller([IdleProc EXCEPT !.pc = "stored", !.kind = "cache"])
          /\ IF deployment = "file"
             THEN /\ redis = NoRedis
                  /\ \E c \in Strings(CacheChars, MaxContentLen) :
                        file = [exists |-> TRUE, content |-> c]
             ELSE /\ file = NoFile
                  /\ \E c \in Strings(CacheChars, MaxContentLen - 2),
                        v \in Strings(CacheChars, 1) :
                        redis = [ts |-> [present |-> TRUE, value |-> c],
                                 sum |-> [present |-> TRUE, value |-> v,
                                          expireAt |-> StartTime + THROTTLE_SECONDS * 1000]]

\* writeCache(newTimestamp, newSummary), from call to return, succeeding.
CacheWriteCache ==
    LET r == proc[1] IN
    /\ r.kind = "cache" /\ r.pc = "call"
    /\ IF deployment = "file"
       THEN /\ file' = WriteData(OpenTruncate(file),
                                 writeCache(r.newTimestamp, r.newSummary))
            /\ redis' = redis
       ELSE /\ redis' = setSummaryKey(setTimestampKey(redis, r.newTimestamp),
                                      r.newSummary, now)
            /\ file' = file
    /\ written' = written \cup {Entry(r.newTimestamp, r.newSummary)}
    /\ lastWrite' = Entry(r.newTimestamp, r.newSummary)
    /\ proc' = [proc EXCEPT ![1] = [r EXCEPT !.pc = "written", !.wrote = TRUE]]
    /\ UNCHANGED <<config, now, ticks, feed, started, calls, cohortGen,
                   faults, last>>

\* readCache(), from call to return.
CacheReadCache ==
    LET r == proc[1] IN
    /\ r.kind = "cache" /\ r.pc \in {"written", "stored"}
    /\ proc' = [proc EXCEPT ![1] =
                   [r EXCEPT !.pc = "read",
                             !.cachedData = IF deployment = "file"
                                            THEN readCache(file, TRUE)
                                            ELSE readCacheRedis(redis, now, TRUE)]]
    /\ UNCHANGED <<config, now, ticks, file, feed, redis, started, calls,
                   cohortGen, written, lastWrite, faults, last>>

CacheNext == CacheWriteCache \/ CacheReadCache

CacheSpec == CacheInit /\ [][CacheNext]_vars

\* Characters of summaries handed to the feed renderer.
FeedChars == {"a", "]", ">"}

FeedTimestamps == {StartTime, 86399999, 90000000}

FeedInit ==
    /\ Quiet
    /\ deployment = "file" /\ file = NoFile /\ redis = NoRedis
    /\ \E t \in FeedTimestamps, text \in Strings(FeedChars, MaxFeedLen) :
          proc = Caller([IdleProc EXCEPT !.pc = "call", !.kind = "feed",
                                         !.newTimestamp = t,
                                         !.newSummary = text])

\* updateFeedXML(newTimestamp, newSummary), a first and a second time.
FeedUpdateFeedXML ==
    LET r == proc[1] IN
    /\ r.kind = "feed" /\ r.pc \in {"call", "rendered"}
    /\ feed' = updateFeedXML(r.newTimestamp, r.newSummary)
    /\ proc' = [proc EXCEPT ![1] =
                   [r EXCEPT !.pc = IF r.pc = "call" THEN "rendered"
                                    ELSE "rerendered"]]
    /\ UNCHANGED <<config, now, ticks, file, redis, started, calls,
                   cohortGen, written, lastWrite, faults, last>>

\* Time passes between the two renderings.
FeedTick ==
    /\ proc[1].kind = "feed" /\ proc[1].pc = "rendered"
    /\ ticks < MaxTicks
    /\ now' = now + 1000
    /\ ticks' = ticks + 1
    /\ UNCHANGED <<config, file, feed, redis, proc, started, calls,
                   cohortGen, written, lastWrite, faults, last>>

FeedNext == FeedUpdateFeedXML \/ FeedTick

FeedSpec == FeedInit /\ [][FeedNext]_vars

(***************************************************************************)
(* Properties.                                                             *)
(***************************************************************************)
\* The requests and runs in progress, and the one this step completed.
Records == {r \in {proc[p] : p \in Procs} \cup {last} : r.pc # "idle"}

\* The entry a request or run read was younger than the window when it
\* started (now - generatedAt < window).
ReadFresh(r) ==
    /\ r.cachedData.present
    /\ r.currentTime - r.cachedData.timestamp < THROTTLE_MILLISECONDS

Succeeded(r) == r.pc = "done" /\ (r.status = 200 \/ r.exitCode = 0)

Failed(r) == r.pc = "done" /\ (r.status = 500 \/ r.exitCode = 1)

WriteInProgress ==
    \E p \in Procs :
        proc[p].pc \in {"writeOpen", "writeData", "setTimestamp", "setSummary"}

\* The answer r carries the summary text: as the summary field, or behind
\* the banner in the handler that prepends it.
Carries(r, text) ==
    r.summary = text \/ r.summary = HeaderText(r.header) \o text

\* What a read of the cache returns now.
Stored ==
    IF deployment = "redis" THEN readCacheRedis(redis, now, TRUE)
    ELSE readCache(file, TRUE)

\* C1: single-flight.  The requests and runs that start together on an
\* empty cache make exactly one summarizer invocation among them and all
\* return the same generatedAt.
C1_SingleFlight ==
    /\ cohortCalls <= 1
    /\ Cardinality(cohortGen) <= 1

\* C2: at most one summarizer invocation per throttle window.  Whenever the
\* summarizer is invoked, the previous invocation (if any) lies at least
\* THROTTLE_MILLISECONDS back.
C2_OneCallPerWindow ==
    [][\A p \in Procs :
          (~proc[p].invoked /\ proc'[p].invoked /\ lastCall > 0)
              => now - lastCall >= THROTTLE_MILLISECONDS]_vars

\* C3: a request or run that arrives after a generation has completed with
\* the cache write of its summary text, and reads the cache within that
\* generation's window, is
\* served from the cache and does not invoke the summarizer (stated for
\* behaviours without any cache I/O error).
C3_ServedCachedWithinWindow ==
    \A r \in Records :
        (r.afterGen /\ faults = 0) => (r.path = "cached" /\ ~r.invoked)

\* C4: an entry is fresh exactly when now - generatedAt < window.  A request
\* or run takes the cached path iff it read an entry with
\* currentTime - timestamp < THROTTLE_MILLISECONDS; at equality it takes the
\* generation path.
C4_FreshIffWithinWindow ==
    \A r \in Records :
        r.path # "none" =>
            /\ (r.path = "cached") <=> ReadFresh(r)
            /\ (r.cachedData.present
                /\ r.currentTime - r.cachedData.timestamp = THROTTLE_MILLISECONDS)
                   => r.path = "generate"

\* C4 witness: a request or run read an entry exactly one window old and
\* went on to generate.
C4_Witness ==
    \E r \in Records :
        /\ r.cachedData.present
        /\ r.currentTime - r.cachedData.timestamp = THROTTLE_MILLISECONDS
        /\ r.path = "generate"

\* C5 as stated: a request with forceRegenerate = true that read a fresh
\* entry has invoked the summarizer by the time it is answered.
C5_ForceRegenerates ==
    \A r \in Records :
        (r.pc = "done" /\ r.forceRegenerate /\ ReadFresh(r)) => r.invoked

\* C5 amended: forceRegenerate is not read.  A request with
\* forceRegenerate = true that read a fresh entry takes the cached path: it
\* is answered 200 with the cached summary and the summarizer is not invoked.
C5_ForceIgnored ==
    \A r \in Records :
        (r.path # "none" /\ r.forceRegenerate /\ ReadFresh(r)) =>
            /\ r.path = "cached" /\ ~r.invoked /\ ~r.wrote
            /\ r.status = 200
            /\ Carries(r, r.cachedData.summary)

\* C5 witness: a request with forceRegenerate = true was answered from a
\* fresh entry.
C5_Witness ==
    /\ last.pc = "done" /\ last.forceRegenerate /\ ReadFresh(last)
    /\ last.status = 200 /\ ~last.invoked

\* C6: when the summarizer call fails, the request fails with a 500 (the
\* run exits with code 1) and writeCache is not called; the step that
\* reports the failure leaves the cache and the feed as they were.
C6_FailureLeavesCache ==
    /\ [](\A r \in Records :
             r.providerStatus = 503 => (Failed(r) /\ ~r.wrote))
    /\ [][\A p \in Procs :
             (proc[p].pc = "fetch" /\ proc'[p].pc = "idle")
                 => /\ Failed(last')
                    /\ file' = file /\ redis' = redis /\ feed' = feed]_vars

\* C6 witness: a summarizer call failed while the cache held an entry, and
\* a read of the cache still returns that entry.
C6_Witness ==
    /\ last.providerStatus = 503 /\ Failed(last)
    /\ lastWrite.present /\ Stored = lastWrite

\* C7: when the provider's response carries no extractable text, the
\* request fails (500, exit code 1) and writeCache is not called.
C7_UnusableResultFails ==
    \A r \in Records :
        r.unusable => (~r.wrote /\ ~Succeeded(r))

\* C8: a request without htmlContent is answered 400 exactly when it takes
\* the generation path, without invoking the summarizer or calling
\* writeCache; with a fresh entry it is answered 200 from the cache.  No
\* other request is answered 400.
C8_MissingContent ==
    \A r \in Records :
        /\ (r.kind \in {"claude", "gemini"} /\ r.path # "none" /\ ~r.htmlContent) =>
              /\ r.pc = "done"
              /\ (r.status = 400) <=> (r.path = "generate")
              /\ (r.status = 200) <=> (r.path = "cached")
              /\ r.path = "cached" => Carries(r, r.cachedData.summary)
              /\ ~r.invoked /\ ~r.wrote
        /\ r.status = 400 => (~r.htmlContent /\ r.path = "generate")

\* C8 witness: a request without htmlContent found an expired entry and was
\* answered 400.
C8_Witness ==
    /\ last.status = 400 /\ ~last.htmlContent
    /\ last.cachedData.present /\ ~ReadFresh(last)

\* C9: a read of the cache returns nothing or a complete (timestamp,
\* summary) pair of one writeCache call, never parts of two.
C9_ReadsSeeWholeEntries ==
    \A r \in Records : r.cachedData.present => r.cachedData \in written

\* C10: once the concurrent writes have completed, the cache holds exactly
\* the pair of the writeCache call that completed last (stated for
\* behaviours without any cache I/O error; a Redis summary may have
\* expired).
C10_LastWriteWins ==
    (~WriteInProgress /\ lastWrite.present /\ faults = 0) =>
        \/ Stored = lastWrite
        \/ deployment = "redis" /\ ~Stored.present

\* C11: cache round trip.  A successful writeCache(timestamp, summary) of a
\* summary with some text, followed by readCache() with no write between,
\* returns the entry (timestamp, summary).
C11_RoundTrip ==
    LET r == proc[1] IN
    (r.kind = "cache" /\ r.pc = "read" /\ r.wrote /\ trim(r.newSummary) # <<>>)
        => r.cachedData = Entry(r.newTimestamp, r.newSummary)

\* C12: on the cached path the summarizer is not invoked and writeCache is
\* not called, the answer carries the stored summary and the banner its
\* original time of generation (the script hands both to updateFeedXML), and
\* the steps of a request or run on the cached path leave the cache as it
\* was.
C12_CachedPathFrame ==
    /\ [](\A r \in Records :
             r.path = "cached" =>
                /\ ~r.invoked /\ ~r.wrote
                /\ r.generatedAt = r.cachedData.timestamp
                /\ r.kind # "daily" =>
                      /\ r.status = 200
                      /\ Carries(r, r.cachedData.summary)
                      /\ r.header.at = formatTimestamp(r.cachedData.timestamp)
                /\ r.kind = "daily" =>
                      /\ r.newTimestamp = r.cachedData.timestamp
                      /\ r.newSummary = r.cachedData.summary)
    /\ [][\A p \in Procs :
             (/\ proc'[p] # proc[p]
              /\ \/ proc'[p].path = "cached"
                 \/ proc'[p].pc = "idle" /\ last'.path = "cached")
                 => file' = file /\ redis' = redis]_vars

\* C12 witness: a request was answered from an entry generated earlier, and
\* a read of the cache still returns that entry.
C12_Witness ==
    /\ last.pc = "done" /\ last.path = "cached" /\ last.status = 200
    /\ last.currentTime > last.cachedData.timestamp
    /\ Stored = last.cachedData

\* C13: a generation persists the time of its request: the timestamp handed
\* to writeCache is the currentTime the throttle decision was made with.
C13_PersistsRequestTime ==
    \A r \in Records :
        (r.wrote /\ ~r.unusable) => r.newTimestamp = r.currentTime

StoredTimestampText ==
    IF deployment = "file" THEN split(trim(file.content))[1]
    ELSE redis.ts.value

IsNumeral(text) == text # <<>> /\ \A i \in 1..Len(text) : IsDigit(text[i])

\* C15: every entry readCache returns has a summary and a timestamp that is
\* a non-negative integer, stored as a numeral; other stored data is a miss.
C15_ValidEntries ==
    LET r == proc[1] IN
    (r.kind = "cache" /\ r.pc = "read" /\ r.cachedData.present) =>
        /\ r.cachedData.summary # <<>>
        /\ r.cachedData.timestamp >= 0
        /\ IsNumeral(StoredTimestampText)

\* C16: in every 200 answer the summary field is the summary text alone: the
\* cached summary on the cached path, the provider's text on the generation
\* path.
C16_RawSummary ==
    \A r \in Records :
        (r.kind # "daily" /\ r.status = 200 /\ ~r.unusable) =>
            r.summary = IF r.path = "cached" THEN r.cachedData.summary
                        ELSE r.newSummary

\* C17: every 200 answer carries, in full, a summary that one writeCache
\* call was given (this request's own text included).
C17_NoMixedSummary ==
    \A r \in Records :
        (r.kind # "daily" /\ r.status = 200) =>
            \E w \in written : Carries(r, w.summary)

\* C18: when no request or run is in progress (and no I/O error occurred),
\* feed.xml is the rendering of the entry the cache file holds.
C18_FeedMatchesCache ==
    (deployment = "file" /\ InFlight = {} /\ faults = 0 /\ Stored.present) =>
        feed = updateFeedXML(Stored.timestamp, Stored.summary)

\* C19: rendering the feed again with the same (timestamp, summary) writes
\* the same document, whatever the time of rendering.
C19_RenderIdempotent ==
    [][(proc[1].kind = "feed" /\ proc[1].pc = "rendered"
        /\ proc'[1].pc = "rerendered") => feed' = feed]_vars

\* C19 witness: the feed was rendered a second time, later than the first.
C19_Witness ==
    /\ proc[1].kind = "feed" /\ proc[1].pc = "rerendered"
    /\ now > StartTime /\ feed.exists

\* The places where ]]> occurs in text.
Occurrences(text) ==
    {i \in 1..(Len(text) - 2) : SubSeq(text, i, i + 2) = <<"]", "]", ">">>}

\* Where character j of the summary stands in the escaped body: 12
\* characters further for every ]]> that ends at or before j.
Shifted(text, j) ==
    j + 12 * Cardinality({i \in Occurrences(text) : i + 2 <= j})

\* C20: the feed body is the summary with ]]><![CDATA[ put between the ]]
\* and the > of every ]]> (so that each ]]> reads ]]]]><![CDATA[>), every
\* character of the summary kept, in order.
C20_CDATAEscaping ==
    LET r == proc[1]
        text == r.newSummary
    IN  (r.kind = "feed" /\ feed.exists) =>
            /\ Len(feed.body) = Len(text) + 12 * Cardinality(Occurrences(text))
            /\ \A j \in 1..Len(text) : feed.body[Shifted(text, j)] = text[j]
            /\ \A i \in Occurrences(text) :
                  SubSeq(feed.body, Shifted(text, i + 1) + 1,
                         Shifted(text, i + 1) + 12)
                      = <<"]", "]", ">", "<", "!", "[", "C", "D", "A", "T", "A", "[">>

\* C20 witness: a summary with two ]]> was rendered.
C20_Witness ==
    /\ proc[1].kind = "feed" /\ feed.exists
    /\ Cardinality(Occurrences(proc[1].newSummary)) = 2

\* C21: the feed document has one channel with one item; the date in the
\* item's guid is the UTC day of the timestamp and its pubDate is the
\* timestamp to the second, whatever the summary and the time of rendering.
C21_FeedItem ==
    LET t == proc[1].newTimestamp IN
    (proc[1].kind = "feed" /\ feed.exists) =>
        /\ feed.channels = 1 /\ feed.items = 1
        /\ feed.guid * 86400000 <= t /\ t < (feed.guid + 1) * 86400000
        /\ feed.pubDate * 1000 <= t /\ t < (feed.pubDate + 1) * 1000

\* C21 witness: a feed rendered, after time has passed, for a timestamp in
\* the last millisecond of a day.
C21_Witness ==
    /\ proc[1].kind = "feed" /\ proc[1].pc = "rerendered" /\ ticks > 0
    /\ proc[1].newTimestamp = 86399999 /\ feed.guid = 0

\* C22: a source that fails is skipped and the items of the others are
\* aggregated; a run with no item at all exits 1 without invoking the
\* summarizer or writing the cache; a run that finds a fresh entry fetches
\* nothing and does not fail.  (A run holds what it fetched until the
\* provider answers.)
C22_FetchFailures ==
    \A r \in Records :
        r.kind = "daily" =>
            /\ r.fetched => r.path = "generate"
            /\ (r.fetched /\ r.providerStatus = 0) =>
                  /\ r.newsItems = r.sourcesOk
                  /\ r.newsItems = 0 => (Failed(r) /\ ~r.invoked /\ ~r.wrote)
                  /\ (r.newsItems > 0 /\ apiKey) => r.invoked
            /\ r.path = "cached" =>
                   (~r.fetched /\ ~r.invoked /\ r.exitCode # 1
                    /\ r.pc = "done" => r.exitCode = 0)

\* C22 witness: a run went on to the summarizer although one of its sources
\* failed.
C22_Witness ==
    \E p \in Procs :
        /\ proc[p].kind = "daily" /\ proc[p].pc = "fetch" /\ proc[p].invoked
        /\ proc[p].sourcesOk > 0 /\ proc[p].sourcesOk < NumSources

\* C23: when the provider call fails with a status, the error the caller
\* gets carries that status.
C23_ErrorCarriesStatus ==
    \A r \in Records :
        (r.pc = "done" /\ r.providerStatus = 503) => r.errorStatus = 503

\* The text holds a character of a banner.
HasBanner(text) == \E i \in 1..Len(text) : text[i] = "#"

\* C24: what is stored is the summary alone.  The entry handed to writeCache
\* is the generation's (timestamp, text), the text being the provider's when
\* it gave one; no banner is in the cache file, in the Redis summary or in
\* an entry a request read.
C24_NoBannerInStorage ==
    /\ lastWrite.present => lastWrite \in written
    /\ ~HasBanner(file.content) /\ ~HasBanner(redis.sum.value)
    /\ \A r \in Records :
          /\ ~HasBanner(r.cachedData.summary)
          /\ (r.wrote /\ ~r.unusable) => r.newSummary \in Texts

\* C24 witness: the handler that prepends the banner to its answer served an
\* entry from the cache, and the entry is a provider text without banner.
C24_Witness ==
    /\ deployment = "concat" /\ last.path = "cached" /\ last.status = 200
    /\ last.cachedData.summary \in Texts
    /\ HasBanner(last.summary)

\* C25: the throttle policy decides freshness.  An entry read with an age of
\* a window or more is never served, although the store still held it, and
\* every SET of the Redis summary key makes it expire one throttle window
\* after the SET.
C25_PolicyDecides ==
    /\ [](\A r \in Records :
             (r.cachedData.present
              /\ r.currentTime - r.cachedData.timestamp >= THROTTLE_MILLISECONDS)
                 => (r.path # "cached" /\ (Succeeded(r) => r.invoked)))
    /\ [][redis'.sum # redis.sum =>
              /\ redis'.sum.present
              /\ redis'.sum.expireAt = now + THROTTLE_MILLISECONDS]_vars

\* C25 witness: Redis had not yet expired a summary whose timestamp was a
\* whole window old, and the request that read it went on to generate.
C25_Witness ==
    \E r \in Records :
        /\ deployment = "redis" /\ r.cachedData.present
        /\ r.currentTime - r.cachedData.timestamp >= THROTTLE_MILLISECONDS
        /\ r.currentTime < redis.sum.expireAt
        /\ r.path = "generate" /\ r.invoked

\* The request or run r read an entry stamped after its own Date.now().
ReadFuture(r) ==
    /\ r.path # "none" /\ r.cachedData.present
    /\ r.cachedData.timestamp > r.currentTime

\* C26: an entry whose timestamp is later than the reader's clock is treated
\* as fresh, and the banner shows window - (now - generatedAt) as it is:
\* more than the window, rounded up to minutes, not clamped.
C26_FutureEntryNotClamped ==
    \A r \in Records :
        ReadFuture(r) =>
            /\ r.path = "cached" /\ ~r.invoked
            /\ (r.pc = "done" /\ r.kind # "daily") =>
                  /\ r.status = 200 /\ r.header.banner = "throttle"
                  /\ r.header.minutes =
                        ceilDiv(THROTTLE_MILLISECONDS
                                    + (r.cachedData.timestamp - r.currentTime),
                                60 * 1000)
                  /\ r.header.minutes > THROTTLE_MINUTES

\* C26 witness: a request was answered from an entry stamped after the
\* request's own clock reading.
C26_Witness ==
    /\ ReadFuture(last) /\ last.kind # "daily" /\ last.status = 200
    /\ last.header.minutes = THROTTLE_MINUTES + 1

\* C27: an entry is never deleted.  Once a writeCache call has completed, the
\* cache holds an entry, unless the Redis summary
\* has expired (stated for behaviours without cache I/O errors and without
\* empty summaries, when every request and run in flight arrived after a
\* writeCache call had completed).
C27_NeverDeleted ==
    (/\ lastWrite.present /\ faults = 0
     /\ \A e \in written : e.summary # <<>>
     /\ \A p \in Procs : proc[p].pc # "idle" => proc[p].genSeen > 0) =>
        \/ Stored.present
        \/ deployment = "redis" /\ now >= redis.sum.expireAt

\* C28: no retry.  A request or run waiting for the provider has invoked it
\* and has had no earlier outcome from it; one whose provider call failed
\* has reported the failure and has written nothing; a request or run that
\* has invoked the summarizer never starts a second call, and every
\* invocation is the first of its request or run.
C28_NoRetry ==
    /\ [](\A r \in Records :
             /\ r.pc = "fetch" => (r.invoked /\ r.providerStatus = 0)
             /\ r.providerStatus = 503 => (Failed(r) /\ r.invoked /\ ~r.wrote))
    /\ [][/\ \A p \in Procs :
                (proc[p].invoked /\ proc'[p].pc = "fetch") => proc'[p] = proc[p]
          /\ lastCall' # lastCall =>
                \E p \in Procs : ~proc[p].invoked /\ proc'[p].invoked]_vars

\* C28 witness: a run of the script called the provider, the call failed,
\* and the run exited with code 1.
C28_Witness ==
    /\ last.kind = "daily" /\ last.invoked
    /\ last.providerStatus = 503 /\ last.exitCode = 1

\* The answers of the handlers that return the banner apart from the summary.
SplitAnswers ==
    {r \in Records : r.pc = "done" /\ r.kind \in {"claude", "gemini"}
                     /\ deployment # "concat"}

\* C29: in the handlers with a separate header field every 200 answer has a
\* header.  It is the throttle banner iff the summarizer was not invoked and
\* the fresh banner iff it was; the throttle banner's next time is the
\* cached timestamp plus the window, the fresh banner's the new timestamp
\* plus the window.  An answer that is not 200 has no header.
C29_HeaderPresent ==
    \A r \in SplitAnswers :
        /\ r.status = 200 =>
              /\ r.header.banner \in {"throttle", "fresh"}
              /\ r.header.banner = "throttle" <=> ~r.invoked
              /\ r.header.banner = "fresh" <=> r.invoked
              /\ r.header.banner = "throttle" =>
                    /\ r.header.at = formatTimestamp(r.cachedData.timestamp)
                    /\ r.header.next = formatTimestamp(r.cachedData.timestamp
                                                       + THROTTLE_MILLISECONDS)
              /\ r.header.banner = "fresh" =>
                    /\ r.header.at = formatTimestamp(r.newTimestamp)
                    /\ r.header.next = formatTimestamp(r.newTimestamp
                                                       + THROTTLE_MILLISECONDS)
        /\ r.status # 200 => r.header = NoHeader

\* C29 witness: a generating request was answered 200 with the fresh banner
\* after an earlier entry had gone stale.
C29_Witness ==
    /\ last \in SplitAnswers /\ last.status = 200 /\ last.invoked
    /\ last.header.banner = "fresh"
    /\ last.cachedData.present /\ last.newTimestamp > last.cachedData.timestamp

\* C30: every answer or run on the cached path computes a remaining time
\* that is greater than 0 and at most the throttle window.
C30_RemainingWithinWindow ==
    \A r \in Records :
        r.path = "cached" =>
            LET remaining == THROTTLE_MILLISECONDS
                                 - (r.currentTime - r.cachedData.timestamp)
            IN  /\ remaining > 0 /\ remaining <= THROTTLE_MILLISECONDS
                /\ (r.pc = "done" /\ r.kind # "daily") =>
                       r.header.minutes \in 1..THROTTLE_MINUTES

\* C31: the stored generatedAt never decreases.  A writeCache call that
\* completes (without any cache I/O error in the behaviour) never stores an
\* entry whose timestamp is older than that of the entry stored by the
\* writeCache call that completed before it.
C31_TimestampNeverDecreases ==
    [][(lastWrite.present /\ lastWrite' # lastWrite /\ faults' = 0)
          => lastWrite'.timestamp >= lastWrite.timestamp]_vars

(***************************************************************************)
(* The endpoint on its own, with awaits that resolve.  Requests arrive at  *)
(* one instant; every pending cache I/O and provider call of a request     *)
(* eventually returns or fails.                                            *)
(***************************************************************************)
\* The step of request p that its pending await resolves into.
Resolves(p) ==
    \/ ClaudeReadCache(p)
    \/ ClaudeFetchReturns(p)
    \/ FileWriteOpen(p)
    \/ FileWriteData(p)
    \/ GeminiReadCache(p)
    \/ GeminiGenerateReturns(p)
    \/ RedisSetTimestamp(p)
    \/ RedisSetSummary(p)

LiveNext == \E p \in Procs : PostSummarizeNews(p) \/ Resolves(p)

LiveSpec ==
    /\ Init /\ [][LiveNext]_vars
    /\ \A p \in Procs : WF_vars(Resolves(p))

\* C32: every request is answered exactly once, with 200, 400 or 500.  A
\* request in the handler has not been answered yet; it eventually leaves
\* the handler; and the step by which it leaves is its one answer, with
\* status 200, 400 or 500.
C32_ExactlyOneResponse ==
    /\ [](\A p \in Procs : proc[p].pc # "idle" => proc[p].status = 0)
    /\ [][\A p \in Procs :
             (proc[p].pc # "idle" /\ proc'[p].pc = "idle") =>
                 /\ last'.pc = "done"
                 /\ last'.status \in {200, 400, 500}
                 /\ last'.currentTime = proc[p].currentTime
                 /\ last'.htmlContent = proc[p].htmlContent]_vars
    /\ \A p \in Procs : (proc[p].pc # "idle") ~> (proc[p].pc = "idle")

\* C32 witness: every request that may arrive has arrived and none is
\* pending; the last one was answered 200 after generating.
C32_Witness ==
    /\ started = MaxRequests /\ \A p \in Procs : proc[p].pc = "idle"
    /\ last.pc = "done" /\ last.status = 200 /\ last.invoked

\* C33: a run of the script that ends in failure has modified neither
\* summary_cache.txt nor feed.xml.  A run exits with code 1 only before it
\* calls writeCache, on the generation path; a run that fetched no item, or
\* whose provider call failed, exits with code 1; and no step of a run that
\* has neither found a fresh entry nor reached writeCache changes the cache
\* file or the feed.
C33_FailedRunFrame ==
    /\ [](\A r \in Records :
             r.kind = "daily" =>
                 /\ r.exitCode = 1 =>
                        (r.pc = "done" /\ r.path = "generate" /\ ~r.wrote)
                 /\ (r.fetched /\ r.sourcesOk = 0 /\ r.providerStatus = 0)
                        => r.exitCode = 1
                 /\ r.providerStatus = 503 => r.exitCode = 1)
    /\ [][\A p \in Procs :
             (proc[p].kind = "daily" /\ proc[p].path # "cached"
              /\ ~proc[p].wrote /\ proc'[p] # proc[p])
                 => (file' = file /\ feed' = feed)]_vars

\* C33 witness: a run found a stale entry, failed, and left the entry in the
\* cache file and the feed rendered from it.
C33_Witness ==
    /\ last.kind = "daily" /\ last.exitCode = 1
    /\ last.cachedData.present /\ Stored = last.cachedData
    /\ feed.exists /\ feed.timestamp = last.cachedData.timestamp

(***************************************************************************)
(* The Claude endpoint started without CLAUDE_API_KEY, beside a cache file *)
(* that is absent or holds the entry an earlier generation left.           *)
(***************************************************************************)
KeyInit ==
    /\ deployment = "file" /\ apiKey = FALSE
    /\ now = StartTime /\ ticks = 0
    /\ feed = NoFeed /\ redis = NoRedis
    /\ proc = [p \in Procs |-> IdleProc]
    /\ started = 0 /\ lastCall = 0 /\ cohortCalls = 0 /\ cohortGen = {}
    /\ faults = 0 /\ last = IdleProc
    /\ \/ file = NoFile /\ written = {} /\ lastWrite = null
       \/ \E text \in Texts :
             /\ file = WriteData(OpenTruncate(NoFile),
                                 writeCache(StartTime, text))
             /\ written = {Entry(StartTime, text)}
             /\ lastWrite = Entry(StartTime, text)

KeyNext ==
    \/ Tick
    \/ \E p \in Procs : PostSummarizeNews(p) \/ ClaudeReadCache(p)

KeySpec == KeyInit /\ [][KeyNext]_vars

\* C34: the Claude endpoint without an API key.  A request that read a fresh
\* entry is answered 200 with the cached summary; on the generation path a
\* request with content is answered 500 and one without content 400; no
\* request invokes the summarizer or calls writeCache, and the cache file
\* stays as it is.
C34_NoApiKey ==
    /\ [](\A r \in Records :
             (r.kind = "claude" /\ ~apiKey) =>
                 /\ ~r.invoked /\ ~r.wrote
                 /\ r.pc = "done" =>
                       /\ ReadFresh(r) =>
                             /\ r.status = 200 /\ r.path = "cached"
                             /\ r.summary = r.cachedData.summary
                       /\ (~ReadFresh(r) /\ r.htmlContent) =>
                             (r.status = 500 /\ r.path = "generate")
                       /\ (~ReadFresh(r) /\ ~r.htmlContent) =>
                             (r.status = 400 /\ r.path = "generate"))
    /\ [][~apiKey => (file' = file /\ lastCall' = lastCall)]_vars

\* C34 witness: without an API key, a request with content that read a
\* stale entry was answered 500.
C34_Witness ==
    /\ ~apiKey /\ last.kind = "claude" /\ last.status = 500
    /\ last.htmlContent /\ last.cachedData.present /\ ~ReadFresh(last)

=============================================================================
